---------------------------- MODULE Spec2Model ----------------------------
(***************************************************************************)
(* Dotcoin: a single-node UTXO ledger.                                     *)
(*   DotcoinServer (core/server.mjs, kept in src/README.md lines 108-363)  *)
(*     addTransaction, addBlock: the only writers of the ledger store.     *)
(*   DotcoinClient (src/core/client.mjs)                                   *)
(*     createTransaction, mine: read the store and return candidates.      *)
(*   common.mjs (src/unnamed/part_000): key derivation, signatures,        *)
(*     findNonce.                                                          *)
(* The ledger store (database/*.mjs) and the hashing helpers               *)
(* (utils/utils.mjs) are not part of the sources at hand; they are         *)
(* modelled from their contract in spec.md, sections 3 and 6.              *)
(***************************************************************************)
EXTENDS Integers, Sequences, FiniteSets, TLC

VARIABLES
    db,              \* the ledger store: utxos, transactions, blocks
    txCandidate,     \* the transaction a wallet holds, built by createTransaction
    blockCandidate,  \* the {block, coinbase, transactions} a miner holds
    calls,           \* server calls suspended at a store await
    last             \* the call that finished last, with its outcome

vars == <<db, txCandidate, blockCandidate, calls, last>>

-----------------------------------------------------------------------------
(* Bounds of the model *)

MaxIndex == 1        \* child indices 0..MaxIndex have room for a UTXO record
MaxBlocks == 3       \* blocks the store takes
MaxTransactions == 4 \* transactions the store takes, coinbases included
MaxCalls == 2        \* server calls suspended at the same time
pageSize == 2        \* stands for the 100 of getTransactions(0, 100, 1, true) in mine

(* Configuration *)

difficulty == 1      \* config.difficulty || 1
amount == 100        \* config.amount || 100, the coinbase amount
limit == 2           \* config.limit (|| 1024), configured: transactions per block, coinbase included

Accounts == {0, 1}
Chains == {"receive", "change"}

\* the calls the wallets and miners of the model make
Miners == {0}
Payers == {0}
AmountChoices == {0, amount \div 2, amount + (amount \div 2)}

Null == [kind |-> "null"]

-----------------------------------------------------------------------------
(* Keys: common.mjs *)

\* m/44'/1'/account'/1
getReceiveKeys(account) == [account |-> account, chain |-> "receive"]

\* m/44'/1'/account'/0
getChangeKeys(account) == [account |-> account, chain |-> "change"]

\* parent.deriveChild(index)
getChildKeys(key, index) ==
    [account |-> key.account, chain |-> key.chain, index |-> index]

ParentKeys == {getReceiveKeys(a) : a \in Accounts} \cup {getChangeKeys(a) : a \in Accounts}

\* the recipient keys handed to createTransaction
Payees == {getReceiveKeys(a) : a \in Accounts}

\* the addresses the store has room for
Addresses == {getChildKeys(k, i) : k \in ParentKeys, i \in 0..MaxIndex}

\* keyPair.sign(hash): a signature binds the signed hash to the signing key
signHash(hash, privateKey) == [kind |-> "sig", hash |-> hash, key |-> privateKey]

\* keyPair.verify(hash, sig)
verifySignature(hash, publicKey, sig) ==
    /\ sig.kind = "sig"
    /\ sig.hash = hash
    /\ sig.key = publicKey

-----------------------------------------------------------------------------
(* Hashing collaborator: utils.mjs, modelled from spec.md section 6 *)

Signatures(tx) == IF "signatures" \in DOMAIN tx THEN tx.signatures ELSE <<>>

\* covers inputs, outputs and signatures; neither _id nor block
getTransactionHash(tx) ==
    [kind |-> "tx", utxoIns |-> tx.utxoIns, utxoOuts |-> tx.utxoOuts,
     signatures |-> Signatures(tx)]

\* ordered combination of the hashes
getMerkleRoot(hashes) == hashes

\* number of leading '1' characters of the block hash
LeadingOnes(previous, root, nonce) ==
    (nonce + Len(root) + (IF previous = Null THEN 0 ELSE 1)) % (difficulty + 2)

\* covers previous, root and nonce
getBlockHash(block) ==
    [kind |-> "block", previous |-> block.previous, root |-> block.root,
     nonce |-> block.nonce,
     ones |-> LeadingOnes(block.previous, block.root, block.nonce)]

\* blockHash.startsWith("1".repeat(n))
startsWithOnes(hash, n) == hash.ones >= n

-----------------------------------------------------------------------------
(* Ledger store collaborator: database-read.mjs / database-write.mjs,       *)
(* modelled from spec.md sections 3 and 6: records keyed by address,        *)
(* transaction id and block id; listings in insertion order.                *)

EmptyDb ==
    [utxos |-> [a \in Addresses |-> Null], transactions |-> <<>>, blocks |-> <<>>]

Range(s) == {s[i] : i \in DOMAIN s}

RECURSIVE SumSeq(_)
SumSeq(s) == IF s = <<>> THEN 0 ELSE Head(s) + SumSeq(Tail(s))

\* position of the first element equal to x, 0 when there is none
IndexOf(s, x) ==
    IF \E i \in DOMAIN s : s[i] = x
    THEN CHOOSE i \in DOMAIN s : s[i] = x /\ \A j \in 1..(i - 1) : s[j] # x
    ELSE 0

\* insert-or-replace of a record keyed by _id, keeping insertion order
Put(s, r) ==
    IF \E i \in DOMAIN s : s[i]._id = r._id
    THEN [i \in DOMAIN s |-> IF s[i]._id = r._id THEN r ELSE s[i]]
    ELSE Append(s, r)

dbGetUtxo(d, address) ==
    IF address \in DOMAIN d.utxos THEN d.utxos[address] ELSE Null

dbGetTransaction(d, id) ==
    IF \E i \in DOMAIN d.transactions : d.transactions[i]._id = id
    THEN d.transactions[IndexOf([i \in DOMAIN d.transactions |-> d.transactions[i]._id], id)]
    ELSE Null

dbGetBlock(d, id) ==
    IF \E i \in DOMAIN d.blocks : d.blocks[i]._id = id
    THEN d.blocks[IndexOf([i \in DOMAIN d.blocks |-> d.blocks[i]._id], id)]
    ELSE Null

\* getTransactions(0, count, 1, true): the oldest unconfirmed ones first
dbGetUnconfirmed(d, count) ==
    LET pool == SelectSeq(d.transactions, LAMBDA t : t.block = Null)
    IN  SubSeq(pool, 1, IF Len(pool) < count THEN Len(pool) ELSE count)

\* getBlocks(0, 1, -1): the block inserted last
dbGetLastBlocks(d) ==
    IF d.blocks = <<>> THEN <<>> ELSE <<d.blocks[Len(d.blocks)]>>

\* spend(txId, addresses): marks each UTXO's spender
dbSpendUtxos(d, txId, addresses) ==
    [d EXCEPT !.utxos =
        [a \in DOMAIN d.utxos |->
            IF a \in addresses /\ d.utxos[a] # Null
            THEN [d.utxos[a] EXCEPT !.txIn = txId]
            ELSE d.utxos[a]]]

\* addTransaction(tx): stores the transaction and one UTXO per output
dbAddTransaction(d, tx) ==
    LET created(a) == {i \in DOMAIN tx.utxoOuts : tx.utxoOuts[i].address = a}
        lastOut(a) == tx.utxoOuts[CHOOSE i \in created(a) : \A j \in created(a) : j <= i]
    IN  [d EXCEPT
            !.transactions = Put(d.transactions, tx),
            !.utxos = [a \in DOMAIN d.utxos |->
                IF created(a) # {}
                THEN [address |-> a, amount |-> lastOut(a).amount,
                      txOut |-> tx._id, txIn |-> Null, block |-> tx.block]
                ELSE d.utxos[a]]]

\* confirmTransactions(blockId, txIds): transactions and their outputs get the block
dbConfirmTransactions(d, blockId, txIds) ==
    [d EXCEPT
        !.transactions = [i \in DOMAIN d.transactions |->
            IF d.transactions[i]._id \in txIds
            THEN [d.transactions[i] EXCEPT !.block = blockId]
            ELSE d.transactions[i]],
        !.utxos = [a \in DOMAIN d.utxos |->
            IF d.utxos[a] # Null /\ d.utxos[a].txOut \in txIds
            THEN [d.utxos[a] EXCEPT !.block = blockId]
            ELSE d.utxos[a]]]

dbAddBlock(d, block) == [d EXCEPT !.blocks = Put(d.blocks, block)]

-----------------------------------------------------------------------------
(* DotcoinServer.addTransaction: src/README.md lines 140-227.               *)
(* A call is a record; pc names the store await it is suspended at.         *)

\* throw new ValidationError(message)
Rejected(c, message) == [c EXCEPT !.pc = "ValidationError", !.error = message]

\* lines 142-146: one signature per input
LengthsMatch(txParams) == Len(txParams.utxoIns) = Len(txParams.signatures)

\* lines 148-150: the hash that is signed, signatures cleared
SigningHash(txParams) == getTransactionHash([txParams EXCEPT !.signatures = <<>>])

\* lines 155-157: seenInputs.has(utxoIn)
DuplicateInput(txParams, i) == \E j \in 1..(i - 1) : txParams.utxoIns[j] = txParams.utxoIns[i]

\* lines 160-165: the input has a record in the store
InputExists(d, utxoIn) == dbGetUtxo(d, utxoIn) # Null

SignatureValidAnyPosition(d, txParams, i) ==
    \E j \in DOMAIN txParams.signatures :
        verifySignature(SigningHash(txParams), dbGetUtxo(d, txParams.utxoIns[i]).address,
                        txParams.signatures[j])

\* lines 167-174: the signature at the input's position verifies under the UTXO's key
SignatureValid(d, txParams, i) ==
    LET utxoIn == txParams.utxoIns[i]
        utxo == dbGetUtxo(d, utxoIn)
        signatureIndex == IndexOf(txParams.utxoIns, utxoIn)
        signature == txParams.signatures[signatureIndex]
    IN  verifySignature(SigningHash(txParams), utxo.address, signature)

\* lines 177-190: output addresses are distinct and amounts positive
OutputsValid(txParams) ==
    /\ \A i, j \in DOMAIN txParams.utxoOuts :
          txParams.utxoOuts[i].address = txParams.utxoOuts[j].address => i = j
    /\ \A i \in DOMAIN txParams.utxoOuts : txParams.utxoOuts[i].amount > 0

\* lines 200-203
TotalOutput(txParams) ==
    SumSeq([i \in DOMAIN txParams.utxoOuts |-> txParams.utxoOuts[i].amount])

InputsCoverAnyValue(totalInput, totalOutput) == totalInput > 0

\* lines 204-208
InputsCover(totalInput, totalOutput) == ~(totalInput < totalOutput)

RECURSIVE SettleTxSpendBeforeSum(_)
SettleTxSpendBeforeSum(c) ==
    LET n == Len(c.txParams.utxoIns) IN
    IF c.i <= n \/ c.pc \notin {"check", "sum", "spend"} THEN c
    ELSE IF c.pc = "check"
         THEN IF OutputsValid(c.txParams)
              THEN SettleTxSpendBeforeSum([c EXCEPT !.pc = "spend", !.i = 1])
              ELSE Rejected(c, "Invalid outputs")
    ELSE IF c.pc = "spend"
         THEN SettleTxSpendBeforeSum([c EXCEPT !.pc = "sum", !.i = 1])
    ELSE IF InputsCover(c.totalInput, TotalOutput(c.txParams))
         THEN [c EXCEPT !.pc = "store"]
         ELSE Rejected(c, "Insufficient input amount")

\* runs the synchronous code up to the next store await
RECURSIVE SettleTx(_)
SettleTx(c) ==
    LET n == Len(c.txParams.utxoIns) IN
    IF c.i <= n \/ c.pc \notin {"check", "sum", "spend"} THEN c
    ELSE IF c.pc = "check"
         THEN IF OutputsValid(c.txParams)
              THEN SettleTx([c EXCEPT !.pc = "sum", !.i = 1])
              ELSE Rejected(c, "Invalid outputs")
    ELSE IF c.pc = "sum"
         THEN IF InputsCover(c.totalInput, TotalOutput(c.txParams))
              THEN SettleTx([c EXCEPT !.pc = "spend", !.i = 1])
              ELSE Rejected(c, "Insufficient input amount")
    ELSE [c EXCEPT !.pc = "store"]

\* the call up to its first await
BeginAddTransaction(txParams) ==
    LET c == [op |-> "addTransaction", txParams |-> txParams, pc |-> "check",
              i |-> 1, totalInput |-> 0, error |-> ""]
    IN  IF LengthsMatch(txParams) THEN SettleTx(c)
        ELSE Rejected(c, "Mismatch between number of UTXO inputs and signatures")

\* one store operation of the call and the synchronous code after it
StepAddTransaction(d, c) ==
    LET tx == c.txParams
        next == [c EXCEPT !.i = c.i + 1]
    IN  CASE c.pc = "check" ->
               [db |-> d,
                call |-> IF DuplicateInput(tx, c.i)
                         THEN Rejected(c, "Duplicate UTXO input detected")
                         ELSE IF ~InputExists(d, tx.utxoIns[c.i])
                         THEN Rejected(c, "UTXO is not confirmed or does not exist")
                         ELSE IF ~SignatureValid(d, tx, c.i)
                         THEN Rejected(c, "Invalid signature")
                         ELSE SettleTx(next)]
          [] c.pc = "sum" ->
               LET utxo == dbGetUtxo(d, tx.utxoIns[c.i])
               IN  [db |-> d,
                    call |-> SettleTx([next EXCEPT !.totalInput =
                                IF utxo # Null THEN c.totalInput + utxo.amount
                                ELSE c.totalInput])]
          [] c.pc = "spend" ->
               [db |-> dbSpendUtxos(d, tx._id, {tx.utxoIns[c.i]}),
                call |-> SettleTx(next)]
          [] c.pc = "store" ->
               [db |-> dbAddTransaction(d, [block |-> Null] @@ tx),
                call |-> [c EXCEPT !.pc = "accepted"]]

-----------------------------------------------------------------------------
(* DotcoinServer.addBlock: src/README.md lines 237-309 *)

DifficultyMetOneShort(block) == startsWithOnes(getBlockHash(block), difficulty - 1)

\* lines 238-243: the recomputed hash carries the difficulty prefix
DifficultyMet(block) == startsWithOnes(getBlockHash(block), difficulty)

PreviousExistsUnchecked(d, block) == TRUE

\* lines 245-253: the previous block is stored under the id asked for
PreviousExists(d, block) ==
    LET previousBlock == dbGetBlock(d, block.previous)
    IN  previousBlock # Null /\ previousBlock._id = block.previous

\* lines 271-283: root over the coinbase hash and the fetched transactions' hashes
RootMatches(block, coinbase, fetchedTxs) ==
    LET txHashes == [i \in DOMAIN fetchedTxs |-> getTransactionHash(fetchedTxs[i])]
        coinbaseHash == getTransactionHash(coinbase)
    IN  block.root = getMerkleRoot(<<coinbaseHash>> \o txHashes)

CoinbaseValidAnyAmount(coinbase) ==
    ~ \/ Len(coinbase.utxoIns) > 0
      \/ Len(coinbase.utxoOuts) # 1

\* lines 285-292: no input, one output, of the coinbase amount
CoinbaseValid(coinbase) ==
    ~ \/ Len(coinbase.utxoIns) > 0
      \/ Len(coinbase.utxoOuts) # 1
      \/ coinbase.utxoOuts[1].amount # amount

\* runs the synchronous code up to the next store await
SettleBlock(c) ==
    IF c.pc # "fetch" \/ c.i <= Len(c.transactions) THEN c
    ELSE IF ~RootMatches(c.block, c.coinbase, c.fetchedTxs)
         THEN Rejected(c, "Invalid Merkle root")
    ELSE IF ~CoinbaseValid(c.coinbase)
         THEN Rejected(c, "Invalid coinbase transaction")
    ELSE [c EXCEPT !.pc = "addBlock"]

\* the call up to its first await
BeginAddBlock(block, coinbase, transactions) ==
    LET c == [op |-> "addBlock", block |-> block, coinbase |-> coinbase,
              transactions |-> transactions, pc |-> "previous", i |-> 1,
              fetchedTxs |-> <<>>, error |-> ""]
    IN  IF ~DifficultyMet(block) THEN Rejected(c, "Block hash does not satisfy difficulty")
        ELSE IF block.previous # Null THEN c
        ELSE SettleBlock([c EXCEPT !.pc = "fetch"])

\* one store operation of the call and the synchronous code after it
StepAddBlock(d, c) ==
    LET blockHash == getBlockHash(c.block) IN
    CASE c.pc = "previous" ->
           [db |-> d,
            call |-> IF PreviousExists(d, c.block)
                     THEN SettleBlock([c EXCEPT !.pc = "fetch"])
                     ELSE Rejected(c, "Previous block does not exist")]
      [] c.pc = "fetch" ->
           LET tx == dbGetTransaction(d, c.transactions[c.i])
           IN  [db |-> d,
                call |-> IF tx = Null THEN Rejected(c, "Transaction does not exist")
                         ELSE SettleBlock([c EXCEPT !.i = c.i + 1,
                                                    !.fetchedTxs = Append(c.fetchedTxs, tx)])]
      [] c.pc = "addBlock" ->
           [db |-> dbAddBlock(d, [c.block EXCEPT !._id = blockHash]),
            call |-> [c EXCEPT !.pc = "confirm"]]
      [] c.pc = "confirm" ->
           [db |-> dbConfirmTransactions(d, blockHash, Range(c.transactions)),
            call |-> [c EXCEPT !.pc = "coinbase"]]
      [] c.pc = "coinbase" ->
           [db |-> dbAddTransaction(d, [block |-> blockHash] @@ c.coinbase),
            call |-> [c EXCEPT !.pc = "accepted"]]

-----------------------------------------------------------------------------
(* A server call from its entry to its return, with no other call between *)

Finished(c) == c.pc \in {"accepted", "ValidationError"}

StepCall(d, c) ==
    IF c.op = "addTransaction" THEN StepAddTransaction(d, c) ELSE StepAddBlock(d, c)

RECURSIVE RunCall(_, _)
RunCall(d, c) ==
    IF Finished(c) THEN [db |-> d, call |-> c]
    ELSE LET r == StepCall(d, c) IN RunCall(r.db, r.call)

-----------------------------------------------------------------------------
(* DotcoinClient: src/core/client.mjs *)

NextUnusedNoLookup(d, parentKey, childIndex) == getChildKeys(parentKey, childIndex)

\* lines 156-164, 170-178, 219-227: the first child of the key with no UTXO record
RECURSIVE NextUnused(_, _, _)
NextUnused(d, parentKey, childIndex) ==
    LET derivedKey == getChildKeys(parentKey, childIndex)
    IN  IF dbGetUtxo(d, derivedKey) = Null THEN derivedKey
        ELSE NextUnused(d, parentKey, childIndex + 1)

SpendableUnconfirmed(utxo, total, amt) ==
    /\ utxo # Null
    /\ utxo.txIn = Null
    /\ ~(total >= amt)

\* lines 128-130: a UTXO the selection takes
Spendable(utxo, total, amt) ==
    /\ utxo # Null
    /\ utxo.txIn = Null
    /\ utxo.block # Null
    /\ ~(total >= amt)

\* lines 106-139: the selection loop; sel is [total, selectedUtxos]
RECURSIVE SelectUtxos(_, _, _, _, _)
SelectUtxos(d, account, amt, childIndex, sel) ==
    LET receiveAddress == getChildKeys(getReceiveKeys(account), childIndex)
        changeAddress == getChildKeys(getChangeKeys(account), childIndex)
        receiveUtxo == dbGetUtxo(d, receiveAddress)
        changeUtxo == dbGetUtxo(d, changeAddress)
        take(s, utxo) ==
            IF Spendable(utxo, s.total, amt)
            THEN [total |-> s.total + utxo.amount,
                  selectedUtxos |-> Append(s.selectedUtxos,
                      [address |-> utxo.address, childIndex |-> childIndex,
                       type |-> IF utxo.address = receiveAddress
                                THEN "receive" ELSE "change"])]
            ELSE s
    IN  IF ~(sel.total < amt) THEN sel
        ELSE IF receiveUtxo = Null /\ changeUtxo = Null /\ childIndex > 0 THEN sel
        ELSE SelectUtxos(d, account, amt, childIndex + 1,
                         take(take(sel, receiveUtxo), changeUtxo))

SigningKeyReceiveOnly(account, utxoObj) ==
    getChildKeys(getReceiveKeys(account), utxoObj.childIndex)

\* lines 190-201: the key that signs for a selected UTXO
SigningKey(account, utxoObj) ==
    IF utxoObj.type = "receive"
    THEN getChildKeys(getReceiveKeys(account), utxoObj.childIndex)
    ELSE getChildKeys(getChangeKeys(account), utxoObj.childIndex)

\* lines 99-207: the transaction returned, or Null when a ClientError is thrown
createTransaction(d, account, address, amt) ==
    LET sel == SelectUtxos(d, account, amt, 0, [total |-> 0, selectedUtxos |-> <<>>])
        change == sel.total - amt
        changeAddressForOutput == NextUnused(d, getChangeKeys(account), 0)
        recipientAddress == NextUnused(d, address, 0)
        utxoIns == [i \in DOMAIN sel.selectedUtxos |-> sel.selectedUtxos[i].address]
        utxoOuts ==
            <<[address |-> recipientAddress, amount |-> amt]>> \o
            (IF change > 0
             THEN <<[address |-> changeAddressForOutput, amount |-> change]>>
             ELSE <<>>)
        unsigned == [utxoIns |-> utxoIns, utxoOuts |-> utxoOuts, signatures |-> <<>>]
        txHash == getTransactionHash(unsigned)
        signed == [unsigned EXCEPT !.signatures =
                      [i \in DOMAIN sel.selectedUtxos |->
                          signHash(txHash, SigningKey(account, sel.selectedUtxos[i]))]]
    IN  IF sel.total < amt \/ change < 0 THEN Null
        ELSE [_id |-> getTransactionHash(signed)] @@ signed

\* part_000 lines 108-122: the first nonce whose block hash carries the prefix
RECURSIVE findNonceFrom(_, _, _)
findNonceFrom(block, n, nonce) ==
    LET candidate == [block EXCEPT !.nonce = nonce]
        blockId == getBlockHash(candidate)
    IN  IF startsWithOnes(blockId, n) THEN [candidate EXCEPT !._id = blockId]
        ELSE findNonceFrom(block, n, nonce + 1)

findNonce(block, n) == findNonceFrom(block, n, 0)

\* lines 214-256: the candidate returned
mine(d, account) ==
    LET publicKey == NextUnused(d, getReceiveKeys(account), 0)
        body == [utxoIns |-> <<>>, utxoOuts |-> <<[address |-> publicKey, amount |-> amount]>>]
        coinbase == [_id |-> getTransactionHash(body)] @@ body
        unconfirmedTxs == dbGetUnconfirmed(d, pageSize)
        transactionsToMine == <<coinbase>> \o unconfirmedTxs
        lastBlocks == dbGetLastBlocks(d)
        lastBlock == IF Len(lastBlocks) > 0 THEN lastBlocks[1] ELSE Null
        txIds == [i \in DOMAIN transactionsToMine |-> transactionsToMine[i]._id]
        blockCandidateNew ==
            [_id |-> Null,
             previous |-> IF lastBlock # Null THEN lastBlock._id ELSE Null,
             root |-> getMerkleRoot(txIds),
             nonce |-> Null]
        minedBlock == findNonce(blockCandidateNew, difficulty)
    IN  [block |-> [minedBlock EXCEPT !._id = getBlockHash(minedBlock)],
         coinbase |-> coinbase,
         transactions |-> [i \in DOMAIN unconfirmedTxs |-> unconfirmedTxs[i]._id]]

scanEndsEitherEmpty(receiveUtxo, changeUtxo) == receiveUtxo = Null \/ changeUtxo = Null

\* lines 68-70: the scan of getBalance ends at an index with no record on either chain
scanEnds(receiveUtxo, changeUtxo) == receiveUtxo = Null /\ changeUtxo = Null

\* lines 77-84: an unspent record counts as usable when confirmed, as pending otherwise
tally(totals, utxo) ==
    IF utxo = Null \/ utxo.txIn # Null THEN totals
    ELSE IF utxo.block # Null THEN [totals EXCEPT !.usable = @ + utxo.amount]
    ELSE [totals EXCEPT !.pending = @ + utxo.amount]

\* lines 55-87: the loop of getBalance
RECURSIVE balanceFrom(_, _, _, _)
balanceFrom(d, account, childIndex, totals) ==
    LET receiveUtxo == dbGetUtxo(d, getChildKeys(getReceiveKeys(account), childIndex))
        changeUtxo == dbGetUtxo(d, getChildKeys(getChangeKeys(account), childIndex))
    IN  IF scanEnds(receiveUtxo, changeUtxo) THEN totals
        ELSE balanceFrom(d, account, childIndex + 1, tally(tally(totals, receiveUtxo), changeUtxo))

\* lines 50-89
getBalance(d, account) == balanceFrom(d, account, 0, [usable |-> 0, pending |-> 0])

storeAfterMineLive(d, cand) ==
    [d EXCEPT !.transactions =
        [i \in DOMAIN d.transactions |->
            IF d.transactions[i].block = Null /\ d.transactions[i]._id \in Range(cand.transactions)
            THEN [d.transactions[i] EXCEPT !.block = cand.block._id]
            ELSE d.transactions[i]]]

\* lines 214-256: the store after mine returned cand. mine calls getUtxo,
\* getTransactions and getBlocks only; the assignments tx.block = minedBlock._id
\* of lines 252-254 go to the objects getTransactions returned, not to the store
storeAfterMine(d, cand) == d

-----------------------------------------------------------------------------
(* What callers submit: the candidate a client built, or a candidate        *)
(* changed by its holder before it is sent.                                 *)

\* a transaction over the given inputs and outputs, signed by the inputs' keys
SignedBy(utxoIns, utxoOuts) ==
    LET unsigned == [utxoIns |-> utxoIns, utxoOuts |-> utxoOuts, signatures |-> <<>>]
        signed == [unsigned EXCEPT !.signatures =
                      [i \in DOMAIN utxoIns |->
                          signHash(getTransactionHash(unsigned), utxoIns[i])]]
    IN  [_id |-> getTransactionHash(signed)] @@ signed

Reversed(s) == [i \in DOMAIN s |-> s[Len(s) + 1 - i]]

\* the outputs with the first one changed
WithFirstAmount(outs, amt) == <<[outs[1] EXCEPT !.amount = amt]>> \o Tail(outs)

SubmittedTransactions(tx) ==
    LET ins == tx.utxoIns
        outs == tx.utxoOuts
        sigs == tx.signatures
        first == outs[1]
    IN  {tx}
        \cup \* signed again by the owner of the inputs
        {SignedBy(ins, WithFirstAmount(outs, first.amount - 1)),
         SignedBy(ins, WithFirstAmount(outs, 0)),
         SignedBy(ins, WithFirstAmount(outs, first.amount + amount)),
         SignedBy(ins, <<[first EXCEPT !.amount = first.amount \div 2],
                         [first EXCEPT !.amount = first.amount - (first.amount \div 2)]>>
                       \o Tail(outs)),
         SignedBy(<<first.address>> \o ins, outs)}
        \cup (IF ins = <<>> THEN {}
              ELSE {SignedBy(ins \o <<ins[1]>>, outs),
                    \* signatures that do not fit
                    [tx EXCEPT !.signatures = SubSeq(sigs, 1, Len(sigs) - 1)],
                    [tx EXCEPT !.signatures[1] = signHash(sigs[1].hash, first.address)],
                    [tx EXCEPT !.utxoOuts = WithFirstAmount(outs, first.amount - 1)],
                    [tx EXCEPT !.signatures = Reversed(sigs)]})

\* the first nonce whose block hash lacks the prefix
RECURSIVE failingNonceFrom(_, _)
failingNonceFrom(block, nonce) ==
    IF ~startsWithOnes(getBlockHash([block EXCEPT !.nonce = nonce]), difficulty) THEN nonce
    ELSE failingNonceFrom(block, nonce + 1)

\* a sealed candidate over the given coinbase and transaction ids
Sealed(previous, coinbase, transactions) ==
    [block |-> findNonce([_id |-> Null, previous |-> previous,
                          root |-> getMerkleRoot(<<getTransactionHash(coinbase)>> \o transactions),
                          nonce |-> Null], difficulty),
     coinbase |-> coinbase,
     transactions |-> transactions]

WithCoinbase(cand, utxoIns, utxoOuts) ==
    LET body == [utxoIns |-> utxoIns, utxoOuts |-> utxoOuts]
    IN  Sealed(cand.block.previous, [_id |-> getTransactionHash(body)] @@ body,
               cand.transactions)

SubmittedBlocks(cand, tx) ==
    LET out == cand.coinbase.utxoOuts[1]
    IN  {cand,
         [cand EXCEPT !.block.nonce = failingNonceFrom(cand.block, 0)],
         [cand EXCEPT !.transactions = Reversed(cand.transactions)],
         Sealed(cand.block._id, cand.coinbase, cand.transactions),
         WithCoinbase(cand, <<out.address>>, <<out>>),
         WithCoinbase(cand, <<>>, <<>>),
         WithCoinbase(cand, <<>>, <<out, out>>),
         WithCoinbase(cand, <<>>, <<[out EXCEPT !.amount = amount + amount]>>)}
        \cup (IF tx = Null THEN {}
              ELSE {Sealed(cand.block.previous, cand.coinbase,
                           cand.transactions \o <<tx._id>>),
                    [cand EXCEPT !.transactions = cand.transactions \o <<tx._id>>]})

-----------------------------------------------------------------------------
(* The system: wallets and miners build candidates, callers submit them *)

NoCall == [op |-> "none", result |-> "none"]

Init ==
    /\ db = EmptyDb
    /\ txCandidate = Null
    /\ blockCandidate = Null
    /\ calls = <<>>
    /\ last = NoCall

\* the addresses of the outputs have room in the store
InStore(utxoOuts) == \A i \in DOMAIN utxoOuts : utxoOuts[i].address \in Addresses

\* the store has room for what a call may add
HasRoom ==
    /\ Len(db.blocks) < MaxBlocks
    /\ Len(db.transactions) < MaxTransactions

\* what a finished call leaves in last
Outcome(c) ==
    IF c.op = "addTransaction"
    THEN [op |-> c.op, txParams |-> c.txParams, result |-> c.pc, error |-> c.error]
    ELSE [op |-> c.op, block |-> c.block, coinbase |-> c.coinbase,
          transactions |-> c.transactions, result |-> c.pc, error |-> c.error]

\* the wallet of the account calls createTransaction(account, address, amt)
CreateTransactionBy(account) ==
    \E address \in Payees, amt \in AmountChoices :
        LET tx == createTransaction(db, account, address, amt) IN
        /\ calls = <<>>
        /\ tx # Null => InStore(tx.utxoOuts)
        /\ txCandidate' = IF tx = Null THEN txCandidate ELSE tx
        /\ last' = [op |-> "createTransaction", account |-> account, address |-> address,
                    amt |-> amt, result |-> IF tx = Null THEN "ClientError" ELSE "returned"]
        /\ UNCHANGED <<db, blockCandidate, calls>>

CreateTransaction == \E account \in Payers : CreateTransactionBy(account)

\* a wallet calls getBalance(account)
GetBalance ==
    \E account \in Accounts :
        /\ calls = <<>>
        /\ last' = [op |-> "getBalance", account |-> account, result |-> "returned",
                    balance |-> getBalance(db, account)]
        /\ UNCHANGED <<db, txCandidate, blockCandidate, calls>>

\* a miner calls mine(account)
Mine ==
    \E account \in Miners :
        LET cand == mine(db, account) IN
        /\ calls = <<>>
        /\ Len(db.blocks) < MaxBlocks
        /\ InStore(cand.coinbase.utxoOuts)
        /\ blockCandidate' = cand
        /\ db' = storeAfterMine(db, cand)
        /\ last' = [op |-> "mine", account |-> account, result |-> "returned"]
        /\ UNCHANGED <<txCandidate, calls>>

\* the server runs addTransaction(txParams) from entry to return
RunAddTransaction(txParams) ==
    LET r == RunCall(db, BeginAddTransaction(txParams)) IN
    /\ calls = <<>>
    /\ HasRoom
    /\ db' = r.db
    /\ last' = Outcome(r.call)
    /\ UNCHANGED <<txCandidate, blockCandidate, calls>>

\* the server runs addBlock(block, coinbase, transactions) from entry to return
RunAddBlock(cand) ==
    LET r == RunCall(db, BeginAddBlock(cand.block, cand.coinbase, cand.transactions)) IN
    /\ calls = <<>>
    /\ HasRoom
    /\ db' = r.db
    /\ last' = Outcome(r.call)
    /\ UNCHANGED <<txCandidate, blockCandidate, calls>>

\* a caller submits the transaction it holds, as built or changed
AddTransaction ==
    /\ txCandidate # Null
    /\ \E txParams \in SubmittedTransactions(txCandidate) : RunAddTransaction(txParams)

\* a caller submits the block it holds, as mined or changed
AddBlock ==
    /\ blockCandidate # Null
    /\ \E cand \in SubmittedBlocks(blockCandidate, txCandidate) : RunAddBlock(cand)

Next ==
    \/ CreateTransaction
    \/ Mine
    \/ AddTransaction
    \/ AddBlock

Spec == Init /\ [][Next]_vars

-----------------------------------------------------------------------------
(* Callers that submit only what createTransaction and mine returned *)

ClientAddTransaction ==
    /\ txCandidate # Null
    /\ RunAddTransaction(txCandidate)

ClientAddBlock ==
    /\ blockCandidate # Null
    /\ RunAddBlock(blockCandidate)

ClientNext ==
    \/ CreateTransaction
    \/ Mine
    \/ ClientAddTransaction
    \/ ClientAddBlock
    \/ GetBalance

ClientSpec == Init /\ [][ClientNext]_vars

-----------------------------------------------------------------------------
(* Callers that submit what the clients built, under the id the client gave *)
(* or under an id of the caller's choice: txParams._id is an input of       *)
(* addTransaction like any other field.                                     *)

\* the transaction with the hash of its unsigned structure as its id
WithChosenId(tx) == [tx EXCEPT !._id = SigningHash(tx)]

RelayAddTransaction ==
    /\ txCandidate # Null
    /\ \E txParams \in {txCandidate, WithChosenId(txCandidate)} : RunAddTransaction(txParams)

RelayNext ==
    \/ CreateTransaction
    \/ Mine
    \/ RelayAddTransaction
    \/ ClientAddBlock

RelaySpec == Init /\ [][RelayNext]_vars

-----------------------------------------------------------------------------
(* Wallets of every account, and payers that derive the child addresses     *)
(* they pay to themselves instead of taking the next unused ones: the       *)
(* output addresses are inputs of addTransaction like any other field.      *)

\* the transaction paying to the children at the given index, signed by the inputs' keys
PaidToChildren(tx, index) ==
    SignedBy(tx.utxoIns,
             [i \in DOMAIN tx.utxoOuts |-> [tx.utxoOuts[i] EXCEPT !.address.index = index]])

WalletCreateTransaction == \E account \in Accounts : CreateTransactionBy(account)

WalletAddTransaction ==
    /\ txCandidate # Null
    /\ \E txParams \in {txCandidate, PaidToChildren(txCandidate, MaxIndex)} :
          RunAddTransaction(txParams)

WalletNext ==
    \/ WalletCreateTransaction
    \/ Mine
    \/ WalletAddTransaction
    \/ ClientAddBlock
    \/ GetBalance

WalletSpec == Init /\ [][WalletNext]_vars

-----------------------------------------------------------------------------
(* Server calls interleaved at their store awaits, and interrupted there *)

\* two transactions over the same inputs
RivalTransactions(tx) ==
    {tx, SignedBy(tx.utxoIns, WithFirstAmount(tx.utxoOuts, tx.utxoOuts[1].amount - 1))}

\* two different transactions that name a common input
Rivals(txA, txB) ==
    /\ txA # txB
    /\ Range(txA.utxoIns) \cap Range(txB.utxoIns) # {}

\* the call is entered and runs to its first await
Enter(c) ==
    /\ Len(calls) < MaxCalls
    /\ HasRoom
    /\ IF Finished(c)
       THEN /\ last' = Outcome(c)
            /\ UNCHANGED calls
       ELSE /\ calls' = Append(calls, c)
            /\ UNCHANGED last
    /\ UNCHANGED <<db, txCandidate, blockCandidate>>

\* rivalAccepted: a rival transaction was accepted while this call was suspended
EnterAddTransaction ==
    /\ txCandidate # Null
    /\ \E txParams \in RivalTransactions(txCandidate) :
          Enter([rivalAccepted |-> FALSE] @@ BeginAddTransaction(txParams))

EnterAddBlock ==
    /\ blockCandidate # Null
    /\ Enter(BeginAddBlock(blockCandidate.block, blockCandidate.coinbase,
                           blockCandidate.transactions))

Without(s, k) == [i \in 1..(Len(s) - 1) |-> IF i < k THEN s[i] ELSE s[i + 1]]

\* the suspended calls after call c was accepted
NoteAccepted(s, c) ==
    [i \in DOMAIN s |->
        IF /\ c.op = "addTransaction"
           /\ s[i].op = "addTransaction"
           /\ Rivals(c.txParams, s[i].txParams)
        THEN [s[i] EXCEPT !.rivalAccepted = TRUE]
        ELSE s[i]]

\* what a finished call leaves in last, with what happened while it was suspended
ConcurrentOutcome(c) ==
    IF c.op = "addTransaction"
    THEN [rivalAccepted |-> c.rivalAccepted] @@ Outcome(c)
    ELSE Outcome(c)

\* a suspended call resumes: its store operation, then on to the next await
Resume ==
    \E k \in DOMAIN calls :
        LET r == StepCall(db, calls[k]) IN
        /\ db' = r.db
        /\ IF Finished(r.call)
           THEN /\ calls' = IF r.call.pc = "accepted"
                            THEN NoteAccepted(Without(calls, k), r.call)
                            ELSE Without(calls, k)
                /\ last' = ConcurrentOutcome(r.call)
           ELSE /\ calls' = [calls EXCEPT ![k] = r.call]
                /\ UNCHANGED last
        /\ UNCHANGED <<txCandidate, blockCandidate>>

\* the process stops, or the store fails, at the await a call is suspended at
Interrupt ==
    \E k \in DOMAIN calls :
        /\ calls' = <<>>
        /\ last' = [ConcurrentOutcome(calls[k]) EXCEPT !.result = "interrupted"]
        /\ UNCHANGED <<db, txCandidate, blockCandidate>>

\* nothing runs once the process was interrupted
Running == last.result # "interrupted"

ConcurrentNext ==
    \/ Running /\ CreateTransaction
    \/ Running /\ Mine
    \/ Running /\ EnterAddTransaction
    \/ Running /\ EnterAddBlock
    \/ Running /\ Resume
    \/ Running /\ Interrupt

ConcurrentSpec == Init /\ [][ConcurrentNext]_vars

-----------------------------------------------------------------------------
(* Properties *)

AddTransactionReturned(l, result) == l.op = "addTransaction" /\ l.result = result

AddBlockReturned(l, result) == l.op = "addBlock" /\ l.result = result

\* no address is an input of two different stored transactions
NoSharedInput(d) ==
    \A i, j \in DOMAIN d.transactions :
        i # j => Range(d.transactions[i].utxoIns) \cap Range(d.transactions[j].utxoIns) = {}

\* an input of the transaction has no record in d, or a record with a spender
SomeInputUnspendable(d, tx) ==
    \E i \in DOMAIN tx.utxoIns :
        \/ dbGetUtxo(d, tx.utxoIns[i]) = Null
        \/ dbGetUtxo(d, tx.utxoIns[i]).txIn # Null

\* C1: no address is an input of two accepted transactions, and addTransaction
\* rejects, with no change to the store, a transaction one of whose inputs is
\* already spent or has no record.
C1_DoubleSpendExclusion ==
    [][/\ NoSharedInput(db')
       /\ (last'.op = "addTransaction" /\ SomeInputUnspendable(db, last'.txParams))
             => (last'.result = "ValidationError" /\ db' = db)]_vars

\* the amounts of the records the store holds for the inputs
LookedUpTotal(d, tx) ==
    SumSeq([i \in DOMAIN tx.utxoIns |->
              IF dbGetUtxo(d, tx.utxoIns[i]) = Null THEN 0
              ELSE dbGetUtxo(d, tx.utxoIns[i]).amount])

\* C2: a transaction addTransaction accepts has inputs whose looked-up amounts
\* sum to at least the sum of its output amounts, and every output amount is
\* strictly positive.
C2_InputsCoverOutputs ==
    [][AddTransactionReturned(last', "accepted") =>
          LET tx == last'.txParams IN
          /\ LookedUpTotal(db, tx) >= SumSeq([i \in DOMAIN tx.utxoOuts |-> tx.utxoOuts[i].amount])
          /\ \A i \in DOMAIN tx.utxoOuts : tx.utxoOuts[i].amount > 0]_vars

\* an accepted transaction with two inputs whose total exceeds what it pays
C2_Witness ==
    /\ AddTransactionReturned(last, "accepted")
    /\ Len(last.txParams.utxoIns) = 2
    /\ Len(last.txParams.utxoOuts) = 2

\* C3: a call of addTransaction or addBlock that ends in a ValidationError
\* leaves the UTXOs, transactions and blocks of the store as they were.
C3_RejectionLeavesStore ==
    [][last'.result = "ValidationError" => db' = db]_vars

\* a transaction rejected by the last of the checks, over a store that holds records
C3_Witness ==
    /\ AddTransactionReturned(last, "ValidationError")
    /\ last.error = "Insufficient input amount"
    /\ db.transactions # <<>>

\* every spender recorded on a UTXO is a stored transaction
SpendersStored(d) ==
    \A a \in DOMAIN d.utxos :
        (d.utxos[a] # Null /\ d.utxos[a].txIn # Null)
            => dbGetTransaction(d, d.utxos[a].txIn) # Null

\* the block of the call, if stored, has its transactions confirmed and its coinbase stored
BlockComplete(d, l) ==
    dbGetBlock(d, getBlockHash(l.block)) # Null =>
        /\ dbGetTransaction(d, l.coinbase._id) # Null
        /\ \A i \in DOMAIN l.transactions :
              /\ dbGetTransaction(d, l.transactions[i]) # Null
              /\ dbGetTransaction(d, l.transactions[i]).block # Null

\* C4: when addTransaction or addBlock is interrupted between its store writes,
\* the store holds no UTXO spent by a transaction that is not stored, and no
\* block whose transactions are unconfirmed or whose coinbase is not stored.
C4_AtomicCommit ==
    last.result = "interrupted" =>
        /\ SpendersStored(db)
        /\ last.op = "addBlock" => BlockComplete(db, last)

\* C5: of two addTransaction calls that overlap, on different transactions with a
\* common input, at most one is accepted; the spender recorded on a UTXO is a
\* stored transaction once no call is suspended.
C5_ConcurrentExclusion ==
    /\ AddTransactionReturned(last, "accepted") => ~last.rivalAccepted
    /\ (calls = <<>> /\ last.result # "interrupted") => SpendersStored(db)

\* C6: a block addBlock accepts has a hash with the difficulty prefix and a root
\* equal to the Merkle root over the coinbase hash and the hashes of the
\* referenced transactions, in the order of the references.
C6_AcceptedBlockProof ==
    [][AddBlockReturned(last', "accepted") =>
          LET referenced == [i \in DOMAIN last'.transactions |->
                                getTransactionHash(dbGetTransaction(db, last'.transactions[i]))]
          IN  /\ getBlockHash(last'.block).ones >= difficulty
              /\ last'.block.root =
                     getMerkleRoot(<<getTransactionHash(last'.coinbase)>> \o referenced)
              /\ dbGetBlock(db', getBlockHash(last'.block)) # Null]_vars

\* an accepted block that confirms a pooled transaction
C6_Witness ==
    /\ AddBlockReturned(last, "accepted")
    /\ Len(last.transactions) >= 1
    /\ Len(db.blocks) >= 2

\* no input, one output, of the configured reward
CoinbaseShape(tx) ==
    /\ Len(tx.utxoIns) = 0
    /\ Len(tx.utxoOuts) = 1
    /\ tx.utxoOuts[1].amount = amount

\* C7: addBlock accepts a block only with a coinbase of no input and exactly one
\* output of the configured reward, so every stored transaction without inputs
\* has that shape.
C7_CoinbaseShape ==
    [][/\ AddBlockReturned(last', "accepted") =>
             /\ CoinbaseShape(last'.coinbase)
             /\ dbGetTransaction(db', last'.coinbase._id) # Null
       /\ \A i \in DOMAIN db'.transactions :
             Len(db'.transactions[i].utxoIns) = 0 => CoinbaseShape(db'.transactions[i])]_vars

\* a second accepted block, whose coinbase is stored as confirmed
C7_Witness ==
    /\ AddBlockReturned(last, "accepted")
    /\ Len(db.blocks) >= 2
    /\ dbGetTransaction(db, last.coinbase._id).block = getBlockHash(last.block)

\* a reference of the call names a stored transaction that has a block
SomeReferenceConfirmed(d, l) ==
    \E i \in DOMAIN l.transactions :
        /\ dbGetTransaction(d, l.transactions[i]) # Null
        /\ dbGetTransaction(d, l.transactions[i]).block # Null

\* C8: addBlock rejects a block that references a transaction already
\* confirmed, so the block of a confirmed transaction it references never changes.
C8_NoDuplicateConfirmation ==
    [][last'.op = "addBlock" =>
          /\ SomeReferenceConfirmed(db, last') => last'.result = "ValidationError"
          /\ \A i \in DOMAIN last'.transactions :
                LET stored == dbGetTransaction(db, last'.transactions[i]) IN
                (stored # Null /\ stored.block # Null) =>
                    dbGetTransaction(db', stored._id).block = stored.block]_vars

\* the outputs of the stored transactions, coinbases included
AcceptedOutputs ==
    {<<i, j>> \in (DOMAIN db.transactions) \X (1..2) :
        j \in DOMAIN db.transactions[i].utxoOuts}

\* C9: no address is the destination of more than one accepted output, over all
\* accepted transactions and coinbases.
C9_OneTimeAddresses ==
    \A p, q \in AcceptedOutputs :
        db.transactions[p[1]].utxoOuts[p[2]].address
            = db.transactions[q[1]].utxoOuts[q[2]].address  =>  p = q

\* address is the child of key at the smallest index with no record in d
FirstUnusedChild(d, key, address) ==
    /\ address.account = key.account
    /\ address.chain = key.chain
    /\ dbGetUtxo(d, address) = Null
    /\ \A j \in 0..(address.index - 1) : dbGetUtxo(d, getChildKeys(key, j)) # Null

\* C10: the recipient and change addresses createTransaction chooses and the
\* reward address mine chooses are each the child of their parent key at the
\* smallest index with no UTXO record in the store the call read.
C10_NextUnusedSelection ==
    [][/\ (last'.op = "createTransaction" /\ last'.result = "returned") =>
             LET outs == txCandidate'.utxoOuts IN
             /\ FirstUnusedChild(db, last'.address, outs[1].address)
             /\ Len(outs) > 1 =>
                   FirstUnusedChild(db, getChangeKeys(last'.account), outs[2].address)
       /\ last'.op = "mine" =>
             FirstUnusedChild(db, getReceiveKeys(last'.account),
                              blockCandidate'.coinbase.utxoOuts[1].address)]_vars

\* a transaction built with change whose recipient address is not the first child
C10_Witness ==
    /\ last.op = "createTransaction"
    /\ last.result = "returned"
    /\ Len(txCandidate.utxoOuts) = 2
    /\ txCandidate.utxoOuts[1].address.index > 0

\* the call before this one was a createTransaction that returned the candidate held
JustBuilt ==
    /\ last.op = "createTransaction"
    /\ last.result = "returned"

\* C11: a transaction createTransaction returned, submitted to addTransaction
\* against the store it was built from, is accepted, and afterwards each input
\* it selected is marked spent by its id.
C11_BuilderRoundTrip ==
    [][(JustBuilt /\ last'.op = "addTransaction" /\ last'.txParams = txCandidate) =>
          /\ last'.result = "accepted"
          /\ \A i \in DOMAIN txCandidate.utxoIns :
                dbGetUtxo(db', txCandidate.utxoIns[i]).txIn = txCandidate._id]_vars

\* address is a child of the parent key
ChildOf(key, address) == address.account = key.account /\ address.chain = key.chain

\* C12: a transaction createTransaction(account, recipient, amount) returns has
\* one signature per input in the order of the inputs, a first output of
\* exactly amount to a child of the recipient key, a second output of the
\* selected total less amount to a child of the account's change key exactly
\* when the selected total exceeds amount, and outputs that sum to the total of
\* its inputs' amounts.
C12_BuiltTransactionShape ==
    [][(last'.op = "createTransaction" /\ last'.result = "returned") =>
          LET tx == txCandidate'
              outs == tx.utxoOuts
              total == LookedUpTotal(db, tx)
          IN  /\ Len(tx.signatures) = Len(tx.utxoIns)
              /\ \A i \in DOMAIN tx.utxoIns :
                    verifySignature(SigningHash(tx), tx.utxoIns[i], tx.signatures[i])
              /\ outs[1].amount = last'.amt
              /\ ChildOf(last'.address, outs[1].address)
              /\ Len(outs) = (IF total > last'.amt THEN 2 ELSE 1)
              /\ Len(outs) = 2 =>
                    /\ outs[2].amount = total - last'.amt
                    /\ ChildOf(getChangeKeys(last'.account), outs[2].address)
              /\ SumSeq([i \in DOMAIN outs |-> outs[i].amount]) = total]_vars

\* a transaction built from two inputs, with change
C12_Witness ==
    /\ JustBuilt
    /\ Len(txCandidate.utxoOuts) = 2
    /\ Len(txCandidate.utxoIns) = 2


\* every stored block names no previous block or one stored before it
ChainedBackwards(d) ==
    \A i \in DOMAIN d.blocks :
        \/ d.blocks[i].previous = Null
        \/ \E j \in 1..(i - 1) : d.blocks[j]._id = d.blocks[i].previous

\* C13: addBlock accepts a block with a non-null previous only if a block with
\* that id is stored, and after every call each stored block's previous is null
\* or the id of a block stored before it.
C13_PreviousStored ==
    [][/\ (AddBlockReturned(last', "accepted") /\ last'.block.previous # Null) =>
             dbGetBlock(db, last'.block.previous) # Null
       /\ ChainedBackwards(db')]_vars

\* a third block accepted on top of the second
C13_Witness ==
    /\ AddBlockReturned(last, "accepted")
    /\ Len(db.blocks) = 3
    /\ last.block.previous = db.blocks[2]._id
    /\ db.blocks[3]._id = getBlockHash(last.block)

\* the stored blocks with no previous block
GenesisBlocks(d) == {i \in DOMAIN d.blocks : d.blocks[i].previous = Null}

\* C15: at most one stored block has a null previous, and addBlock does not
\* accept a block with a null previous once a block is stored.
C15_GenesisUnique ==
    [][/\ Cardinality(GenesisBlocks(db')) <= 1
       /\ (AddBlockReturned(last', "accepted") /\ last'.block.previous = Null) =>
             \/ db.blocks = <<>>
             \/ dbGetBlock(db, getBlockHash(last'.block)) # Null]_vars

\* the call before this one was a mine that returned the candidate held
JustMined == last.op = "mine" /\ last.result = "returned"

\* C14: a candidate mine returned, submitted to addBlock against the store it
\* was mined from, is accepted; afterwards the block is stored, each referenced
\* transaction has the block's id as its block, and the coinbase is stored as
\* confirmed in that block.
C14_MinerRoundTrip ==
    [][(/\ JustMined
        /\ last'.op = "addBlock"
        /\ last'.block = blockCandidate.block
        /\ last'.coinbase = blockCandidate.coinbase
        /\ last'.transactions = blockCandidate.transactions) =>
          LET blockId == blockCandidate.block._id IN
          /\ last'.result = "accepted"
          /\ dbGetBlock(db', blockId) # Null
          /\ \A i \in DOMAIN blockCandidate.transactions :
                dbGetTransaction(db', blockCandidate.transactions[i]).block = blockId
          /\ dbGetTransaction(db', blockCandidate.coinbase._id) # Null
          /\ dbGetTransaction(db', blockCandidate.coinbase._id).block = blockId]_vars

\* the transactions addTransaction stored: those with inputs
PooledOrConfirmed(d) == {i \in DOMAIN d.transactions : d.transactions[i].utxoIns # <<>>}

\* C16: every transaction addTransaction stored has the hash of its signed
\* structure as its id, and the spender recorded on a UTXO is the hash of a
\* stored transaction that names the UTXO's address as an input.
C16_IdIntegrity ==
    /\ \A i \in PooledOrConfirmed(db) :
          db.transactions[i]._id = getTransactionHash(db.transactions[i])
    /\ \A a \in DOMAIN db.utxos :
          (db.utxos[a] # Null /\ db.utxos[a].txIn # Null) =>
              \E i \in PooledOrConfirmed(db) :
                  /\ db.utxos[a].txIn = getTransactionHash(db.transactions[i])
                  /\ a \in Range(db.transactions[i].utxoIns)

\* signatures[i] is a signature of the cleared hash by the key of the UTXO at inputs[i]
SignedAt(d, tx, sigs, i) ==
    /\ dbGetUtxo(d, tx.utxoIns[i]) # Null
    /\ verifySignature(SigningHash(tx), dbGetUtxo(d, tx.utxoIns[i]).address, sigs[i])

\* valid signatures of two distinct inputs, each at the other's position
Permuted(d, tx) ==
    /\ Len(tx.utxoIns) = 2
    /\ Len(tx.signatures) = 2
    /\ tx.utxoIns[1] # tx.utxoIns[2]
    /\ \A i \in 1..2 : SignedAt(d, tx, Reversed(tx.signatures), i)

\* C17: addTransaction accepts a transaction only if it has as many signatures
\* as inputs and each signatures[i] verifies, over the hash of the transaction
\* with signatures cleared, under the key of the UTXO at inputs[i]; valid
\* signatures permuted among distinct inputs are rejected.
C17_PositionalSignatures ==
    [][last'.op = "addTransaction" =>
          LET tx == last'.txParams IN
          /\ last'.result = "accepted" =>
                /\ Len(tx.signatures) = Len(tx.utxoIns)
                /\ \A i \in DOMAIN tx.utxoIns : SignedAt(db, tx, tx.signatures, i)
          /\ Permuted(db, tx) => last'.result = "ValidationError"]_vars

\* a transaction rejected for its two valid signatures being swapped
C17_Witness ==
    /\ AddTransactionReturned(last, "ValidationError")
    /\ last.error = "Invalid signature"
    /\ Permuted(db, last.txParams)

\* the address holds a record that is neither spent nor unconfirmed
UnspentConfirmed(d, address) ==
    /\ dbGetUtxo(d, address) # Null
    /\ dbGetUtxo(d, address).txIn = Null
    /\ dbGetUtxo(d, address).block # Null

\* some chain of the account has a record at the index
Occupied(d, account, k) ==
    \/ dbGetUtxo(d, getChildKeys(getReceiveKeys(account), k)) # Null
    \/ dbGetUtxo(d, getChildKeys(getChangeKeys(account), k)) # Null

\* the first index above 0 with no record on either chain
ScanEnd(d, account) ==
    CHOOSE k \in 1..(MaxIndex + 1) :
        /\ ~Occupied(d, account, k)
        /\ \A j \in 1..(k - 1) : Occupied(d, account, j)

\* the addresses of indices 0..n-1, receive before change at each index
ScanOrder(account, n) ==
    [i \in 1..(2 * n) |->
        getChildKeys(IF i % 2 = 1 THEN getReceiveKeys(account) ELSE getChangeKeys(account),
                     (i - 1) \div 2)]

\* the unspent confirmed addresses before the end of the scan, in scan order
Selectable(d, account) ==
    SelectSeq(ScanOrder(account, ScanEnd(d, account)), LAMBDA a : UnspentConfirmed(d, a))

AmountsAt(d, addresses) == SumSeq([i \in DOMAIN addresses |-> dbGetUtxo(d, addresses[i]).amount])

Unconfirmed(d) == {d.transactions[i]._id : i \in {j \in DOMAIN d.transactions : d.transactions[j].block = Null}}

\* C20: the ids mine returns are the ids of all stored transactions without a
\* block, each once; the block's root is the Merkle root over the coinbase id
\* followed by those ids in the order returned; the block's previous is the id
\* of the block stored last, or null when no block is stored.
C20_BlockAssembly ==
    [][last'.op = "mine" =>
          LET cand == blockCandidate' IN
          /\ Range(cand.transactions) = Unconfirmed(db)
          /\ Len(cand.transactions) = Cardinality(Unconfirmed(db))
          /\ cand.block.root = getMerkleRoot(<<cand.coinbase._id>> \o cand.transactions)
          /\ cand.block.previous =
                 (IF db.blocks = <<>> THEN Null ELSE db.blocks[Len(db.blocks)]._id)]_vars

\* C21: no candidate mine returns and no block addBlock accepts carries more
\* than limit transactions, the coinbase counted.
C21_BlockSizeLimit ==
    [][/\ last'.op = "mine" => Len(blockCandidate'.transactions) + 1 <= limit
       /\ AddBlockReturned(last', "accepted") => Len(last'.transactions) + 1 <= limit]_vars

\* C22: createTransaction with a positive amount throws exactly when the amount
\* exceeds the usable balance getBalance reports for the account on the same
\* store.
C22_BalanceAgreement ==
    [][(last'.op = "createTransaction" /\ last'.amt > 0) =>
          (last'.result = "ClientError" <=> last'.amt > getBalance(db, last'.account).usable)]_vars

\* the records of the key's children sit at the indices 0..n-1 for some n
Dense(d, key) ==
    \A i \in 0..MaxIndex :
        dbGetUtxo(d, getChildKeys(key, i)) # Null =>
            \A j \in 0..(i - 1) : dbGetUtxo(d, getChildKeys(key, j)) # Null

\* the amount the address holds unspent
UnspentAt(d, address) ==
    IF dbGetUtxo(d, address) # Null /\ dbGetUtxo(d, address).txIn = Null
    THEN dbGetUtxo(d, address).amount
    ELSE 0

\* the unspent amounts at all addresses of the account
UnspentOf(d, account) ==
    LET all == ScanOrder(account, MaxIndex + 1)
    IN  SumSeq([i \in DOMAIN all |-> UnspentAt(d, all[i])])

\* C23: with candidates built by the clients only, the child indices with a
\* record on each account chain form a prefix 0..n-1, and getBalance's usable
\* plus pending is the sum of the unspent amounts at the account's addresses.
C23_DenseChains ==
    \A account \in Accounts :
        /\ Dense(db, getReceiveKeys(account))
        /\ Dense(db, getChangeKeys(account))
        /\ getBalance(db, account).usable + getBalance(db, account).pending
               = UnspentOf(db, account)

\* getBalance returned for an account that holds a spent record, a confirmed and
\* a pending one, over two indices
C23_Witness ==
    /\ last.op = "getBalance"
    /\ last.balance.usable > 0
    /\ last.balance.pending > 0
    /\ Occupied(db, last.account, 1)
    /\ UnspentOf(db, last.account) = last.balance.usable + last.balance.pending

\* the unspent amounts at all addresses of the store
UnspentTotal(d) ==
    UnspentOf(d, 0) + UnspentOf(d, 1)

\* C24: addTransaction never increases the sum of the amounts of the unspent
\* UTXOs, which therefore stays at most the reward times the number of
\* accepted blocks.
C24_NoValueCreation ==
    [][last'.op = "addTransaction" => UnspentTotal(db') <= UnspentTotal(db)]_vars

=============================================================================
